---- MODULE Spec2Model ----
(***************************************************************************)
(* Model of the apple-health-collector repository: the HealthDashboard     *)
(* derivation pipeline (window filter, series builder, summary) and the    *)
(* /api/health-data route handlers (POST, GET).                            *)
(*                                                                         *)
(* Representation.                                                         *)
(*  - A JS number is a record [nan, h]: h is the value in hundredths       *)
(*    (70.04 is h = 7004); arithmetic is exact.                            *)
(*  - The text of an optional numeric field is a record [kind, h]:         *)
(*    "absent" (undefined), "empty" (""), "junk" (a non-numeric text such  *)
(*    as "abc") or "dec" (the decimal text of h hundredths).               *)
(*  - A date text is a record [kind, y, m, d]: "ymd" is the text           *)
(*    yyyy-MM-dd of a calendar date, "bad" a text that does not parse.     *)
(*  - A JS Date is a record [valid, y, m, d, tod]: local calendar fields   *)
(*    and the minute of the day.  Local time is taken to be UTC.           *)
(***************************************************************************)
EXTENDS Integers, Sequences, FiniteSets, TLC

VARIABLES
    \* HealthDashboard (part_001)
    healthData,    \* useState, line 217
    loading,       \* useState, line 218
    timePeriod,    \* useState, line 219
    activeTab,     \* useState, lines 220-222
    pc,            \* where fetchData stands: "mounted", "waiting", "done" (224-243)
    now,           \* the instant new Date() gave the filteredData memo (249)
    filteredData,  \* useMemo value, lines 246-276
    chartData,     \* useMemo value, lines 279-329
    screen,        \* what the last render put on screen (519-683)
    \* /api/health-data (part_000 and src/app/api/health-data/route.ts)
    rootFile,      \* health-data.json in process.cwd() (part_000 line 60)
    dataDir,       \* the data directory exists (route.ts 19-25)
    dataFile,      \* data/health-data.json (route.ts 20)
    inflight,      \* POST handlers suspended at await req.json()
    nextId,        \* number of the next request
    responses      \* the replies sent, in order

dashVars == <<healthData, loading, timePeriod, activeTab, pc, now,
              filteredData, chartData, screen>>
serverVars == <<rootFile, dataDir, dataFile, inflight, nextId, responses>>
vars == <<dashVars, serverVars>>

\* ------------------------------------------------------------------ bounds
\* Longest record collection handed to the dashboard.
MaxLen == 2
\* Requests the route handlers serve in one behaviour.
MaxRequests == 3
\* Days of test data gen() writes (numberOfDays is 30 in the source).
GenDays == 1

\* ---------------------------------------------------------------- numbers
NaN == [nan |-> TRUE, h |-> 0]
Num(h) == [nan |-> FALSE, h |-> h]

\* v > 0 in JS: false for NaN
GtZero(v) == ~v.nan /\ v.h > 0

\* a || "0" on an optional text field: undefined and "" are falsy
OrZero(t) == IF t.kind \in {"absent", "empty"} THEN [kind |-> "dec", h |-> 0] ELSE t

\* parseFloat of a text: NaN for a text with no numeric prefix
parseFloat(t) == IF t.kind = "dec" THEN Num(t.h) ELSE NaN

\* parseInt of a text: the integer part of the decimal text (truncation
\* toward zero), NaN for a text with no numeric prefix
parseInt(t) ==
    IF t.kind # "dec" THEN NaN
    ELSE IF t.h >= 0 THEN Num((t.h \div 100) * 100)
    ELSE Num(0 - (((0 - t.h) \div 100) * 100))

\* Floor of the rational a / b, b > 0
FloorDiv(a, b) == a \div b

\* Math.round(sum / n) with sum in hundredths: floor(x + 0.5), in hundredths
MathRound(sum, n) == FloorDiv(2 * sum + 100 * n, 200 * n) * 100

\* parseFloat((sum / n).toFixed(1)): one decimal, ties up, in hundredths
ToFixed1(sum, n) == FloorDiv(2 * sum + 10 * n, 20 * n) * 10

RECURSIVE SumSeq(_)
SumSeq(s) == IF s = <<>> THEN 0 ELSE Head(s).h + SumSeq(Tail(s))

RECURSIVE MinSeq(_)
MinSeq(s) ==
    IF Len(s) = 1 THEN s[1].h
    ELSE LET r == MinSeq(Tail(s)) IN IF s[1].h < r THEN s[1].h ELSE r

RECURSIVE MaxSeq(_)
MaxSeq(s) ==
    IF Len(s) = 1 THEN s[1].h
    ELSE LET r == MaxSeq(Tail(s)) IN IF s[1].h > r THEN s[1].h ELSE r

\* --------------------------------------------------------------- calendar
MinutesPerDay == 24 * 60

IsLeap(y) == (y % 4 = 0 /\ y % 100 # 0) \/ y % 400 = 0

DaysInMonth(y, m) ==
    IF m = 2 THEN (IF IsLeap(y) THEN 29 ELSE 28)
    ELSE IF m \in {4, 6, 9, 11} THEN 30 ELSE 31

\* Days from 1970-01-01 to the civil date y-m-d
DayNumber(y, m, d) ==
    LET yy  == IF m <= 2 THEN y - 1 ELSE y
        era == yy \div 400
        yoe == yy - era * 400
        mp  == (m + 9) % 12
        doy == (153 * mp + 2) \div 5 + d - 1
        doe == yoe * 365 + yoe \div 4 - yoe \div 100 + doy
    IN  era * 146097 + doe - 719468

InvalidDate == [valid |-> FALSE, y |-> 0, m |-> 0, d |-> 0, tod |-> 0]
MkDate(y, m, d, tod) == [valid |-> TRUE, y |-> y, m |-> m, d |-> d, tod |-> tod]

\* Date.prototype.getTime, in minutes; NaN for an Invalid Date
getTime(dt) ==
    IF dt.valid THEN Num(DayNumber(dt.y, dt.m, dt.d) * MinutesPerDay + dt.tod)
    ELSE NaN

\* a >= b on two Dates: compares the time values, false when either is NaN
DateGe(a, b) ==
    LET ta == getTime(a)
        tb == getTime(b)
    IN  ~ta.nan /\ ~tb.nan /\ ta.h >= tb.h

\* date-fns parse(text, "yyyy-MM-dd", new Date()): local midnight of the
\* date, Invalid Date when the text does not match
parse(text) ==
    IF text.kind = "ymd" /\ text.m \in 1..12 /\ text.d \in 1..DaysInMonth(text.y, text.m)
    THEN MkDate(text.y, text.m, text.d, 0)
    ELSE InvalidDate

\* new Date(text) for a date-only ISO text: midnight of the date
NewDate(text) ==
    IF text.kind = "ymd" /\ text.m \in 1..12 /\ text.d \in 1..DaysInMonth(text.y, text.m)
    THEN MkDate(text.y, text.m, text.d, 0)
    ELSE InvalidDate

\* Date.prototype.setDate(n) for n below 1: borrows from the months before
RECURSIVE setDate(_, _)
setDate(dt, n) ==
    IF n >= 1 THEN [dt EXCEPT !.d = n]
    ELSE LET py == IF dt.m = 1 THEN dt.y - 1 ELSE dt.y
             pm == IF dt.m = 1 THEN 12 ELSE dt.m - 1
         IN  setDate([dt EXCEPT !.y = py, !.m = pm], n + DaysInMonth(py, pm))

\* Date.prototype.setFullYear(y): month and day kept, a day past the end of
\* the month overflows into the next month (29 Feb -> 1 Mar)
setFullYear(dt, y) ==
    IF dt.d <= DaysInMonth(y, dt.m) THEN [dt EXCEPT !.y = y]
    ELSE [dt EXCEPT !.y = y, !.m = dt.m + 1, !.d = dt.d - DaysInMonth(y, dt.m)]

\* date-fns subMonths(date, n): same day of the month n months earlier,
\* clamped to the last day of that month; the time of day is kept
subMonths(dt, n) ==
    LET idx == dt.y * 12 + (dt.m - 1) - n
        ty  == idx \div 12
        tm  == (idx % 12) + 1
        dim == DaysInMonth(ty, tm)
    IN  [dt EXCEPT !.y = ty, !.m = tm, !.d = IF dt.d >= dim THEN dim ELSE dt.d]

\* date-fns format(date, "MMM d", {locale: zhCN}): month and day, the year
\* is dropped; throws a RangeError on an Invalid Date
formatLabel(dt) == [m |-> dt.m, d |-> dt.d]


\* ------------------------------------------------- HealthDashboard: inputs
Absent == [kind |-> "absent", h |-> 0]
Empty  == [kind |-> "empty", h |-> 0]
Junk   == [kind |-> "junk", h |-> 0]
Dec(h) == [kind |-> "dec", h |-> h]

Ymd(y, m, d) == [kind |-> "ymd", y |-> y, m |-> m, d |-> d]
NotADate == [kind |-> "bad", y |-> 0, m |-> 0, d |-> 0]

\* HealthDataPoint: date text and three optional numeric texts
Point(date, steps, weight, heartRate) ==
    [date |-> date, steps |-> steps, weight |-> weight, heartRate |-> heartRate]

\* The records the collections are built from: plain readings, a stored
\* value with more decimals, absent / empty / non-numeric / zero / negative
\* fields, two records of one date, a future date and an unparseable date.
SampleRecords ==
    { Point(Ymd(2025, 3, 1),  Dec(500000), Dec(7004), Dec(7060)),
      Point(Ymd(2025, 3, 10), Dec(700000), Absent,    Dec(7200)),
      Point(Ymd(2025, 3, 8),  Absent,      Dec(7000), Absent),
      Point(Ymd(2025, 3, 10), Empty,       Junk,      Dec(0)),
      Point(NotADate,         Dec(500000), Dec(7130), Dec(8000)),
      Point(Ymd(2023, 3, 1),  Junk,        Dec(4),    Dec(-500)),
      Point(Ymd(2025, 4, 1),  Dec(0),      Dec(-150), Junk),
      Point(Ymd(2025, 2, 28), Dec(600100), Dec(7011), Dec(7150)) }

RECURSIVE SeqsUpTo(_, _)
SeqsUpTo(S, n) ==
    IF n = 0 THEN {<<>>}
    ELSE LET shorter == SeqsUpTo(S, n - 1)
         IN  shorter \cup {Append(s, x) : s \in {t \in shorter : Len(t) = n - 1}, x \in S}

Collections == SeqsUpTo(SampleRecords, MaxLen)

\* The instants at which the dashboard reads the clock (new Date())
Nows ==
    { MkDate(2025, 3, 15, 0), MkDate(2025, 3, 15, 600),
      MkDate(2024, 2, 29, 600), MkDate(2025, 3, 31, 600) }

TIME_PERIODS == {"7D", "1M", "3M", "6M", "1Y", "ALL"}
Tabs == {"steps", "weight", "heartRate"}

\* ---------------------------------------------- HealthDashboard: derivation
\* The switch of filteredData: the cutoff of a bounded window
cutoffDate(tp, at) ==
    CASE tp = "7D" -> setDate(at, at.d - 7)
      [] tp = "1M" -> subMonths(at, 1)
      [] tp = "3M" -> subMonths(at, 3)
      [] tp = "6M" -> subMonths(at, 6)
      [] tp = "1Y" -> setFullYear(at, at.y - 1)

\* InWindow with the comparison made strict
InWindow_strict(item, cutoff) ==
    LET t == getTime(parse(item.date))
    IN  ~t.nan /\ t.h > getTime(cutoff).h

\* The filter callback of filteredData
InWindow(item, cutoff) == DateGe(parse(item.date), cutoff)

\* useMemo filteredData
FilteredData(hd, tp, at) ==
    IF Len(hd) = 0 THEN <<>>
    ELSE IF tp \notin {"7D", "1M", "3M", "6M", "1Y"} THEN hd
    ELSE SelectSeq(hd, LAMBDA item : InWindow(item, cutoffDate(tp, at)))

\* The value of the selected metric of one record, as parsed everywhere in
\* the dashboard: parseInt(d.steps || "0"), parseFloat(d.weight || "0"),
\* parseFloat(d.heartRate || "0")
MetricNumber(item, tab) ==
    CASE tab = "steps"     -> parseInt(OrZero(item.steps))
      [] tab = "weight"    -> parseFloat(OrZero(item.weight))
      [] tab = "heartRate" -> parseFloat(OrZero(item.heartRate))

\* The comparator of the sort of chartData; sort reads a NaN result as 0
compareByDate(a, b) ==
    LET ta == getTime(NewDate(a.date))
        tb == getTime(NewDate(b.date))
    IN  IF ta.nan \/ tb.nan THEN 0 ELSE ta.h - tb.h

\* InsertSorted moving x in front of the elements that compare equal to it
RECURSIVE InsertSorted_unstable(_, _)
InsertSorted_unstable(s, x) ==
    IF s = <<>> THEN <<x>>
    ELSE LET last == s[Len(s)]
         IN  IF compareByDate(last, x) >= 0
             THEN Append(InsertSorted_unstable(SubSeq(s, 1, Len(s) - 1), x), last)
             ELSE Append(s, x)

\* x placed behind the last element that does not sort after it
RECURSIVE InsertSorted(_, _)
InsertSorted(s, x) ==
    IF s = <<>> THEN <<x>>
    ELSE LET last == s[Len(s)]
         IN  IF compareByDate(last, x) > 0
             THEN Append(InsertSorted(SubSeq(s, 1, Len(s) - 1), x), last)
             ELSE Append(s, x)

\* [...filteredData].sort(comparator): a stable sort of a copy
RECURSIVE sortedData(_)
sortedData(fd) ==
    IF fd = <<>> THEN <<>>
    ELSE InsertSorted(sortedData(SubSeq(fd, 1, Len(fd) - 1)), fd[Len(fd)])

\* The sort done in place on the array it is given
AfterSort_inPlace(fd) == sortedData(fd)

\* What chartData leaves in the array it is given: the spread [...filteredData]
\* makes the sort work on a copy, the array itself keeps its order
AfterSort(fd) == fd

\* healthData after the memos have run: under a bounded window filter has
\* built a new array, otherwise filteredData is the healthData array itself
\* (return healthData) and chartData works on that array
AfterDerivation(hd, tp) ==
    IF Len(hd) = 0 \/ tp \in {"7D", "1M", "3M", "6M", "1Y"} THEN hd
    ELSE AfterSort(hd)

NullChart  == [kind |-> "null", labels |-> <<>>, data |-> <<>>]
ThrewChart == [kind |-> "threw", labels |-> <<>>, data |-> <<>>]

\* chartData failing on an empty filtered set instead of returning null
ChartData_throwsOnEmpty(fd, tab) ==
    IF Len(fd) = 0 THEN ThrewChart
    ELSE LET sorted == sortedData(fd)
         IN  IF \E i \in 1..Len(sorted) : ~parse(sorted[i].date).valid
             THEN ThrewChart
             ELSE [kind   |-> "chart",
                   labels |-> [i \in 1..Len(sorted) |-> formatLabel(parse(sorted[i].date))],
                   data   |-> [i \in 1..Len(sorted) |-> MetricNumber(sorted[i], tab)]]

\* useMemo chartData: null for an empty filtered set; format throws on a
\* record whose date does not parse
ChartData(fd, tab) ==
    IF Len(fd) = 0 THEN NullChart
    ELSE LET sorted == sortedData(fd)
         IN  IF \E i \in 1..Len(sorted) : ~parse(sorted[i].date).valid
             THEN ThrewChart
             ELSE [kind   |-> "chart",
                   labels |-> [i \in 1..Len(sorted) |-> formatLabel(parse(sorted[i].date))],
                   data   |-> [i \in 1..Len(sorted) |-> MetricNumber(sorted[i], tab)]]

\* The values that pass .filter((v) => v > 0)
PositiveValues(fd, tab) ==
    SelectSeq([i \in 1..Len(fd) |-> MetricNumber(fd[i], tab)], GtZero)

Unit(tab) == CASE tab = "steps" -> "bu" [] tab = "weight" -> "kg" [] tab = "heartRate" -> "BPM"

\* getMetricInfo dividing by the number of records instead of the number
\* of positive values
getMetricInfo_perRecord(fd, tab) ==
    IF Len(fd) = 0 THEN [unit |-> "", average |-> 0]
    ELSE LET values == PositiveValues(fd, tab)
         IN  [unit |-> Unit(tab),
              average |-> IF tab = "weight" THEN ToFixed1(SumSeq(values), Len(fd))
                          ELSE MathRound(SumSeq(values), Len(fd))]

getMetricInfo(fd, tab) ==
    IF Len(fd) = 0 THEN [unit |-> "", average |-> 0]
    ELSE LET values == PositiveValues(fd, tab)
             n      == Len(values)
         IN  CASE tab = "steps" ->
                    [unit |-> Unit(tab),
                     average |-> MathRound(SumSeq(values), IF n = 0 THEN 1 ELSE n)]
               [] tab = "weight" ->
                    [unit |-> Unit(tab),
                     average |-> IF n # 0 THEN ToFixed1(SumSeq(values), n) ELSE 0]
               [] tab = "heartRate" ->
                    [unit |-> Unit(tab),
                     average |-> IF n # 0 THEN MathRound(SumSeq(values), n) ELSE 0]

\* getMinMaxValues without the v > 0 filter: zero-substituted values stay in
getMinMaxValues_unfiltered(fd, tab) ==
    IF Len(fd) = 0 THEN [min |-> 0, max |-> 0]
    ELSE LET values == SelectSeq([i \in 1..Len(fd) |-> MetricNumber(fd[i], tab)],
                                 LAMBDA v : ~v.nan)
         IN  [min |-> IF Len(values) # 0 THEN MinSeq(values) ELSE 0,
              max |-> IF Len(values) # 0 THEN MaxSeq(values) ELSE 0]

getMinMaxValues(fd, tab) ==
    IF Len(fd) = 0 THEN [min |-> 0, max |-> 0]
    ELSE LET values == PositiveValues(fd, tab)
         IN  [min |-> IF Len(values) # 0 THEN MinSeq(values) ELSE 0,
              max |-> IF Len(values) # 0 THEN MaxSeq(values) ELSE 0]

isDataEmpty(fd, tab) ==
    \/ Len(fd) = 0
    \/ ~\E i \in 1..Len(fd) : GtZero(MetricNumber(fd[i], tab))

\* ------------------------------------------------ HealthDashboard: render
\* One metric-value span: loading ? ... : isDataEmpty ? "no data" : value
MetricCard(ld, empty, value) ==
    IF ld THEN [kind |-> "loading", h |-> 0]
    ELSE IF empty THEN [kind |-> "nodata", h |-> 0]
    ELSE [kind |-> "value", h |-> value]

\* The data prop of the chart: chartData || { labels: [], datasets: [] }
ChartProp(chart) ==
    IF chart.kind = "null" THEN [labels |-> <<>>, datasets |-> <<>>]
    ELSE [labels |-> chart.labels, datasets |-> <<chart.data>>]

NoChartProp == [labels |-> <<>>, datasets |-> <<>>]

\* AppleStyleChart: spinner while loading, the empty state when isEmpty,
\* the line chart otherwise
AppleStyleChart(data, ld, isEmpty) ==
    IF ld THEN [kind |-> "loading", data |-> NoChartProp]
    ELSE IF isEmpty THEN [kind |-> "empty", data |-> NoChartProp]
    ELSE [kind |-> "line", data |-> data]

CrashedScreen ==
    [kind |-> "crashed",
     average |-> [kind |-> "none", h |-> 0],
     min |-> [kind |-> "none", h |-> 0],
     max |-> [kind |-> "none", h |-> 0],
     chart |-> [kind |-> "none", data |-> NoChartProp]]

\* The body of HealthDashboard after the memos: an exception thrown by the
\* chartData memo aborts the render
Render(ld, fd, chart, tab) ==
    IF chart.kind = "threw" THEN CrashedScreen
    ELSE LET metricInfo   == getMetricInfo(fd, tab)
             minMaxValues == getMinMaxValues(fd, tab)
             empty        == isDataEmpty(fd, tab)
         IN  [kind |-> "ok",
              average |-> MetricCard(ld, empty, metricInfo.average),
              min |-> MetricCard(ld, empty, minMaxValues.min),
              max |-> MetricCard(ld, empty, minMaxValues.max),
              chart |-> AppleStyleChart(ChartProp(chart), ld, empty)]

NotBefore(a, b) == getTime(a).h >= getTime(b).h

\* ----------------------------------------------- HealthDashboard: actions
DashInit ==
    /\ healthData = <<>>
    /\ loading = TRUE
    /\ timePeriod = "1M"
    /\ activeTab = "steps"
    /\ pc = "mounted"
    /\ now \in Nows
    /\ filteredData = <<>>
    /\ chartData = NullChart
    /\ screen = Render(TRUE, <<>>, NullChart, "steps")

\* The effect starts fetchData: setLoading(true), then the await
FetchStart ==
    /\ pc = "mounted"
    /\ pc' = "waiting"
    /\ loading' = TRUE
    /\ screen' = Render(TRUE, filteredData, chartData, activeTab)
    /\ UNCHANGED <<healthData, timePeriod, activeTab, now, filteredData, chartData, serverVars>>

\* fetchData resumes: setHealthData(data), finally setLoading(false); the
\* memos are recomputed for the new collection at instant n (healthData is
\* the array the memos have worked on)
FetchResolve(data, n) ==
    /\ pc = "waiting"
    /\ NotBefore(n, now)
    /\ pc' = "done"
    /\ healthData' = AfterDerivation(data, timePeriod)
    /\ loading' = FALSE
    /\ now' = n
    /\ filteredData' = AfterSort(FilteredData(data, timePeriod, n))
    /\ chartData' = ChartData(filteredData', activeTab)
    /\ screen' = Render(FALSE, filteredData', chartData', activeTab)
    /\ UNCHANGED <<timePeriod, activeTab, serverVars>>

\* FetchReject without the finally block: the catch logs and loading stays
FetchReject_noFinally ==
    /\ pc = "waiting"
    /\ pc' = "done"
    /\ loading' = loading
    /\ screen' = Render(loading, filteredData, chartData, activeTab)
    /\ UNCHANGED <<healthData, timePeriod, activeTab, now, filteredData, chartData, serverVars>>

\* fetchData throws: the catch logs, finally setLoading(false)
FetchReject ==
    /\ pc = "waiting"
    /\ pc' = "done"
    /\ loading' = FALSE
    /\ screen' = Render(FALSE, filteredData, chartData, activeTab)
    /\ UNCHANGED <<healthData, timePeriod, activeTab, now, filteredData, chartData, serverVars>>

\* A click on a period button: setTimePeriod(p) and the re-render
SetTimePeriod(p, n) ==
    /\ screen.kind # "crashed"
    /\ p # timePeriod
    /\ NotBefore(n, now)
    /\ timePeriod' = p
    /\ now' = n
    /\ healthData' = AfterDerivation(healthData, p)
    /\ filteredData' = AfterSort(FilteredData(healthData, p, n))
    /\ chartData' = ChartData(filteredData', activeTab)
    /\ screen' = Render(loading, filteredData', chartData', activeTab)
    /\ UNCHANGED <<loading, activeTab, pc, serverVars>>

\* A click on a tab button: setActiveTab(t) and the re-render
SetActiveTab(t) ==
    /\ screen.kind # "crashed"
    /\ t # activeTab
    /\ activeTab' = t
    /\ healthData' = AfterDerivation(healthData, timePeriod)
    /\ filteredData' = AfterSort(filteredData)
    /\ chartData' = ChartData(filteredData, t)
    /\ screen' = Render(loading, filteredData, chartData', t)
    /\ UNCHANGED <<loading, timePeriod, pc, now, serverVars>>

\* --------------------------------------------------- /api/health-data: data
NoFile == [exists |-> FALSE, wellFormed |-> FALSE, value |-> <<>>]
MalformedFile == [exists |-> TRUE, wellFormed |-> FALSE, value |-> <<>>]

\* JSON.stringify(array, null, 2) written to the file
JSONstringify(v) == [exists |-> TRUE, wellFormed |-> TRUE, value |-> v]

\* Request bodies: the JSON text of a record, or a text req.json() rejects
Body(point) == [ok |-> TRUE, value |-> point]
GarbageBody == [ok |-> FALSE, value |-> Point(NotADate, Absent, Absent, Absent)]
\* GET carries no body
NoBody == GarbageBody

Bodies ==
    { Body(Point(Ymd(2025, 3, 10), Dec(700000), Absent, Absent)),
      Body(Point(Ymd(2025, 3, 1), Dec(500000), Dec(7004), Absent)),
      Body(Point(NotADate, Dec(500000), Absent, Absent)),
      GarbageBody }

Routes == {"root", "data"}

\* generateTestData(new Date("2025-01-02"), days): one record per day, the
\* steps drawn at random between 5000 and 12000, the weight with 2 decimals
GenSteps == {Dec(500000), Dec(1200000)}
generateTestData(days) ==
    { [i \in 1..days |-> Point(Ymd(2025, 1, 1 + i), st[i], Dec(7450), Absent)] :
        st \in [1..days -> GenSteps] }

\* PostOutcome starting over from [] when the stored file does not parse
PostOutcome_resetOnParseError(file, body) ==
    IF ~body.ok THEN [status |-> 500, file |-> file]
    ELSE LET existingData == IF file.exists /\ file.wellFormed THEN file.value ELSE <<>>
         IN  [status |-> 200, file |-> JSONstringify(Append(existingData, body.value))]

\* PostOutcome putting the new record in front (unshift for push)
PostOutcome_unshift(file, body) ==
    IF ~body.ok THEN [status |-> 500, file |-> file]
    ELSE IF file.exists /\ ~file.wellFormed THEN [status |-> 500, file |-> file]
    ELSE LET existingData == IF file.exists THEN file.value ELSE <<>>
         IN  [status |-> 200, file |-> JSONstringify(<<body.value>> \o existingData)]

\* The synchronous part of POST: read the file if it exists, push, write
\* back; a malformed body or file throws into the catch (status 500)
PostOutcome(file, body) ==
    IF ~body.ok THEN [status |-> 500, file |-> file]
    ELSE IF file.exists /\ ~file.wellFormed THEN [status |-> 500, file |-> file]
    ELSE LET existingData == IF file.exists THEN file.value ELSE <<>>
         IN  [status |-> 200, file |-> JSONstringify(Append(existingData, body.value))]

\* The read of GET: the parsed file, [] when there is none
GetOutcome(file) ==
    IF file.exists /\ ~file.wellFormed THEN [status |-> 500, body |-> <<>>]
    ELSE [status |-> 200, body |-> IF file.exists THEN file.value ELSE <<>>]

Reply(id, op, route, req, status, body) ==
    [id |-> id, op |-> op, route |-> route, req |-> req, status |-> status, body |-> body]

\* ------------------------------------------------ /api/health-data: actions
ServerInit ==
    /\ rootFile \in {NoFile, MalformedFile, JSONstringify(<<>>)}
    /\ dataDir \in BOOLEAN
    /\ dataFile \in (IF dataDir THEN {NoFile, MalformedFile, JSONstringify(<<>>)} ELSE {NoFile})
    /\ inflight = {}
    /\ nextId = 1
    /\ responses = <<>>

\* POST is entered and suspends at await req.json()
POSTawait(route, body) ==
    /\ nextId <= MaxRequests
    /\ inflight' = inflight \cup {[id |-> nextId, route |-> route, body |-> body]}
    /\ nextId' = nextId + 1
    /\ UNCHANGED <<rootFile, dataDir, dataFile, responses, dashVars>>

\* POST of the route file at the project root resumes and runs to its reply
POSTroot(r) ==
    /\ r \in inflight
    /\ r.route = "root"
    /\ LET out == PostOutcome(rootFile, r.body)
       IN  /\ rootFile' = out.file
           /\ responses' = Append(responses, Reply(r.id, "POST", r.route, r.body, out.status, <<>>))
    /\ inflight' = inflight \ {r}
    /\ UNCHANGED <<dataDir, dataFile, nextId, dashVars>>

\* The records of the POSTs answered 200 on a route by requests with an id
\* below bound, in the order of the replies
RECURSIVE AcceptedBelow(_, _, _)
AcceptedBelow(rs, route, bound) ==
    IF rs = <<>> THEN <<>>
    ELSE LET r == rs[Len(rs)]
             before == AcceptedBelow(SubSeq(rs, 1, Len(rs) - 1), route, bound)
         IN  IF r.op = "POST" /\ r.route = route /\ r.status = 200 /\ r.id < bound
             THEN Append(before, r.req.value) ELSE before

\* POSTdata with the file read before the await on the body: what a request
\* that was entered later has written in the meantime is not in the array
\* it pushes to and writes back
POSTdata_readBeforeAwait(r) ==
    /\ r \in inflight
    /\ r.route = "data"
    /\ LET overtaken == \E i \in 1..Len(responses) :
                            /\ responses[i].route = "data" /\ responses[i].status = 200
                            /\ responses[i].id > r.id
           seen == IF overtaken
                   THEN JSONstringify(AcceptedBelow(responses, "data", r.id))
                   ELSE dataFile
           out  == PostOutcome(seen, r.body)
       IN  /\ dataFile' = (IF out.status = 200 THEN out.file ELSE dataFile)
           /\ responses' = Append(responses, Reply(r.id, "POST", r.route, r.body, out.status, <<>>))
    /\ dataDir' = (dataDir \/ r.body.ok)
    /\ inflight' = inflight \ {r}
    /\ UNCHANGED <<rootFile, nextId, dashVars>>

\* POST of src/app/api/health-data/route.ts resumes: the data directory is
\* made when missing, then the same read, push and write on data/health-data.json
POSTdata(r) ==
    /\ r \in inflight
    /\ r.route = "data"
    /\ LET out == PostOutcome(dataFile, r.body)
       IN  /\ dataFile' = out.file
           /\ responses' = Append(responses, Reply(r.id, "POST", r.route, r.body, out.status, <<>>))
    /\ dataDir' = (dataDir \/ r.body.ok)
    /\ inflight' = inflight \ {r}
    /\ UNCHANGED <<rootFile, nextId, dashVars>>

\* GET: gen() overwrites health-data.json with fresh test data, then the
\* file is read and returned
GET(testData) ==
    /\ nextId <= MaxRequests
    /\ rootFile' = JSONstringify(testData)
    /\ LET out == GetOutcome(rootFile')
       IN  responses' = Append(responses,
               Reply(nextId, "GET", "root", NoBody, out.status, out.body))
    /\ nextId' = nextId + 1
    /\ UNCHANGED <<dataDir, dataFile, inflight, dashVars>>

\* ---------------------------------------------------------- specifications
ServerIdle ==
    /\ rootFile = NoFile
    /\ dataDir = FALSE
    /\ dataFile = NoFile
    /\ inflight = {}
    /\ nextId = 1
    /\ responses = <<>>

\* The dashboard: mount, load, window and tab selections
Init == DashInit /\ ServerIdle
Next ==
    \/ FetchStart
    \/ \E data \in Collections, n \in Nows : FetchResolve(data, n)
    \/ FetchReject
    \/ \E p \in TIME_PERIODS, n \in Nows : SetTimePeriod(p, n)
    \/ \E t \in Tabs : SetActiveTab(t)
Spec == Init /\ [][Next]_vars

\* The dashboard with its scheduling: React runs the mount effect, and the
\* promise fetchData awaits (an 800 ms timer) settles. Resolving and
\* rejecting are enabled in the same states (pc = "waiting") and either one
\* ends the wait, so weak fairness of FetchReject is weak fairness of the
\* settling, by whichever of the two.
SpecLive == Init /\ [][Next]_vars /\ WF_vars(FetchStart) /\ WF_vars(FetchReject)

\* The route handlers
InitServer == DashInit /\ now = MkDate(2025, 3, 15, 0) /\ ServerInit
NextServer ==
    \/ \E route \in Routes, body \in Bodies : POSTawait(route, body)
    \/ \E r \in inflight : POSTroot(r)
    \/ \E r \in inflight : POSTdata(r)
    \/ \E testData \in generateTestData(GenDays) : GET(testData)
SpecServer == InitServer /\ [][NextServer]_vars

\* ------------------------------------------------------------------ claims
BoundedPeriods == {"7D", "1M", "3M", "6M", "1Y"}

\* A date text names a calendar date on or after the instant c, compared
\* field by field (the date stands for its midnight)
OnOrAfter(text, c) ==
    /\ text.kind = "ymd"
    /\ \/ text.y > c.y
       \/ text.y = c.y /\ text.m > c.m
       \/ text.y = c.y /\ text.m = c.m /\ text.d > c.d
       \/ text.y = c.y /\ text.m = c.m /\ text.d = c.d /\ c.tod = 0

\* The eligible values of a record set for a metric: the field is present,
\* numeric and strictly positive (values in hundredths)
FieldOf(item, tab) ==
    CASE tab = "steps" -> item.steps
      [] tab = "weight" -> item.weight
      [] tab = "heartRate" -> item.heartRate

IsEligible(item, tab) == FieldOf(item, tab).kind = "dec" /\ FieldOf(item, tab).h > 0

Eligible(fd, tab) ==
    LET kept == SelectSeq(fd, LAMBDA item : IsEligible(item, tab))
    IN  [i \in 1..Len(kept) |-> FieldOf(kept[i], tab).h]

RECURSIVE Total(_)
Total(s) == IF s = <<>> THEN 0 ELSE s[1] + Total(Tail(s))

Range(s) == {s[i] : i \in DOMAIN s}

Abs(x) == IF x < 0 THEN 0 - x ELSE x

\* r is a multiple of step (hundredths) nearest to the exact mean of s
NearestToMean(r, s, step) ==
    /\ r % step = 0
    /\ 2 * Abs(r * Len(s) - Total(s)) <= step * Len(s)

Rec0301 == Point(Ymd(2025, 3, 1), Dec(500000), Dec(7004), Dec(7060))
Rec0310 == Point(Ymd(2025, 3, 10), Dec(700000), Absent, Dec(7200))

\* C1: for a bounded window the filtered set is exactly the records of the
\* collection, in collection order, whose date is on or after the cutoff
\* computed from the instant the clock was read; a record with a date
\* before the cutoff (or with no parseable date) is left out.  With 7D and
\* now = 2025-03-15, of the records of 03-01 and 03-10 only 03-10 is kept.
C1_WindowFilterExact ==
    /\ timePeriod \in BoundedPeriods =>
         filteredData =
             SelectSeq(healthData,
                       LAMBDA item : OnOrAfter(item.date, cutoffDate(timePeriod, now)))
    /\ ( /\ timePeriod = "7D"
         /\ now \in {MkDate(2025, 3, 15, 0), MkDate(2025, 3, 15, 600)}
         /\ healthData = <<Rec0301, Rec0310>> )
       => filteredData = <<Rec0310>>

C1_Witness ==
    /\ pc = "done"
    /\ timePeriod = "7D"
    /\ now = MkDate(2025, 3, 15, 600)
    /\ healthData = <<Rec0301, Rec0310>>
    /\ filteredData = <<Rec0310>>

\* C2: the average of getMetricInfo is the mean of the eligible values of
\* the filtered set, rounded to the nearest whole unit (steps, heartRate) or
\* to one decimal (weight); with no eligible value the no-data flag is set
\* and the average is the placeholder 0.
C2_AverageOverEligible ==
    LET elig == Eligible(filteredData, activeTab)
        info == getMetricInfo(filteredData, activeTab)
    IN  IF elig = <<>>
        THEN isDataEmpty(filteredData, activeTab) /\ info.average = 0
        ELSE /\ ~isDataEmpty(filteredData, activeTab)
             /\ NearestToMean(info.average, elig, IF activeTab = "weight" THEN 10 ELSE 100)

C2_Witness ==
    /\ ~loading
    /\ activeTab = "weight"
    /\ Len(filteredData) = 2
    /\ Len(Eligible(filteredData, activeTab)) = 1
    /\ screen.kind = "ok"
    /\ screen.average.kind = "value"
    /\ screen.average.h = 7000

\* C5: min and max of getMinMaxValues are the least and the greatest
\* eligible value of the filtered set, so a zero-substituted or non-positive
\* value is never the min; with no eligible value the no-data flag is set.
C5_MinMaxOverEligible ==
    LET elig == Eligible(filteredData, activeTab)
        mm   == getMinMaxValues(filteredData, activeTab)
    IN  IF elig = <<>>
        THEN isDataEmpty(filteredData, activeTab) /\ mm.min = 0 /\ mm.max = 0
        ELSE /\ ~isDataEmpty(filteredData, activeTab)
             /\ mm.min \in Range(elig) /\ mm.max \in Range(elig)
             /\ \A v \in Range(elig) : mm.min <= v /\ v <= mm.max

C5_Witness ==
    /\ ~loading
    /\ activeTab = "heartRate"
    /\ Len(filteredData) = 2
    /\ \E i \in 1..2 : filteredData[i].heartRate.kind = "dec" /\ filteredData[i].heartRate.h <= 0
    /\ screen.kind = "ok"
    /\ screen.min.kind = "value" /\ screen.min.h = 7060
    /\ screen.max.kind = "value" /\ screen.max.h = 7060

\* C3: every value of the series is the metric's number when the field is
\* present and numeric and the number 0 otherwise: an absent field, an
\* empty text and a non-numeric text all give 0, never a non-number.
C3_SeriesValueOrZero ==
    chartData.kind = "chart" =>
        LET sorted == sortedData(filteredData)
        IN  \A i \in 1..Len(sorted) :
                chartData.data[i] =
                    IF FieldOf(sorted[i], activeTab).kind = "dec"
                    THEN Num(FieldOf(sorted[i], activeTab).h)
                    ELSE Num(0)

\* The date of a is not after the date of b
DateLeq(a, b) ==
    \/ a.y < b.y
    \/ a.y = b.y /\ a.m < b.m
    \/ a.y = b.y /\ a.m = b.m /\ a.d <= b.d

\* C4: for every collection, window and metric the series builder yields a
\* series with one label and one value per record of the filtered set, its
\* points in non-decreasing date order.
C4_SeriesLengthAndOrder ==
    /\ chartData.kind # "threw"
    /\ Len(ChartProp(chartData).labels) = Len(filteredData)
    /\ \A k \in 1..Len(ChartProp(chartData).datasets) :
           Len(ChartProp(chartData).datasets[k]) = Len(filteredData)
    /\ LET sorted == sortedData(filteredData)
       IN  \A i, j \in 1..Len(sorted) :
               i < j => DateLeq(sorted[i].date, sorted[j].date)

\* C6: every summary value on screen is rounded: a multiple of 0.1 for
\* weight, a whole number for steps and heartRate (average, min and max).
C6_RoundingLaw ==
    (screen.kind = "ok" /\ screen.average.kind = "value") =>
        LET step == IF activeTab = "weight" THEN 10 ELSE 100
        IN  /\ screen.average.h % step = 0
            /\ screen.min.kind = "value" /\ screen.min.h % step = 0
            /\ screen.max.kind = "value" /\ screen.max.h % step = 0

\* C7: once loading has finished, the three cards and the chart area show
\* the no-data indicator exactly when the filtered set has no eligible
\* value, and numbers and the line chart exactly when it has one.
C7_NoDataIndicator ==
    ~loading =>
        IF Eligible(filteredData, activeTab) = <<>>
        THEN /\ screen.average.kind = "nodata"
             /\ screen.min.kind = "nodata"
             /\ screen.max.kind = "nodata"
             /\ screen.chart.kind = "empty"
        ELSE /\ screen.average.kind = "value"
             /\ screen.min.kind = "value"
             /\ screen.max.kind = "value"
             /\ screen.chart.kind = "line"

HasDate(item) == item.date.kind = "ymd"

\* C8: with a record whose date does not parse in the collection, for every
\* window (ALL included) and metric the derivation completes and the screen
\* is the one derived from the remaining records.
C8_BadDateSkipped ==
    (pc = "done" /\ \E i \in 1..Len(healthData) : ~HasDate(healthData[i])) =>
        LET rest == SelectSeq(healthData, HasDate)
            fd   == FilteredData(rest, timePeriod, now)
        IN  screen = Render(loading, fd, ChartData(fd, activeTab), activeTab)

StoredIn(file) == IF file.exists /\ file.wellFormed THEN file.value ELSE <<>>

\* C9: a POST of a record whose date does not parse is rejected and nothing
\* is appended: no such request is answered 200 and no such record is in a
\* stored collection.
C9_InvalidRecordRejected ==
    /\ \A i \in 1..Len(responses) :
           (responses[i].op = "POST" /\ responses[i].req.ok
              /\ ~HasDate(responses[i].req.value)) => responses[i].status # 200
    /\ \A i \in 1..Len(StoredIn(rootFile)) : HasDate(StoredIn(rootFile)[i])
    /\ \A i \in 1..Len(StoredIn(dataFile)) : HasDate(StoredIn(dataFile)[i])

\* The records accepted (answered 200) by the POSTs on the root file, in order
RECURSIVE AcceptedRoot(_)
AcceptedRoot(rs) ==
    IF rs = <<>> THEN <<>>
    ELSE LET r == rs[Len(rs)]
             before == AcceptedRoot(SubSeq(rs, 1, Len(rs) - 1))
         IN  IF r.op = "POST" /\ r.route = "root" /\ r.status = 200
             THEN Append(before, r.req.value) ELSE before

\* a occurs in b as a subsequence (same relative order)
RECURSIVE IsSubseq(_, _)
IsSubseq(a, b) ==
    IF a = <<>> THEN TRUE
    ELSE IF b = <<>> THEN FALSE
    ELSE IF a[1] = b[1] THEN IsSubseq(Tail(a), Tail(b))
    ELSE IsSubseq(a, Tail(b))

\* C10: a GET answers with the full stored collection, every record accepted
\* by an earlier POST present in ingestion order, and leaves the stored
\* collection as it was.
C10_RetrievalFullAndPure ==
    [][ ( /\ Len(responses') = Len(responses) + 1
          /\ responses'[Len(responses')].op = "GET" )
        => ( /\ StoredIn(rootFile') = StoredIn(rootFile)
             /\ responses'[Len(responses')].status = 200
             /\ IsSubseq(AcceptedRoot(responses), responses'[Len(responses')].body) )
      ]_vars

\* The reply a step has just appended to the log (evaluated on a step)
IsNewReply == Len(responses') = Len(responses) + 1
NewReply == responses'[Len(responses')]

\* C11: a POST answered 200 for record r on a store holding S (S empty when
\* there is no file) leaves the store holding S followed by r: one record
\* more, at the end, the earlier ones unchanged and in place.
C11_PostAppendsOne ==
    [][ (IsNewReply /\ NewReply.op = "POST" /\ NewReply.status = 200) =>
          /\ NewReply.route = "root" =>
               /\ rootFile'.exists /\ rootFile'.wellFormed
               /\ rootFile'.value = Append(StoredIn(rootFile), NewReply.req.value)
          /\ NewReply.route = "data" =>
               /\ dataFile'.exists /\ dataFile'.wellFormed
               /\ dataFile'.value = Append(StoredIn(dataFile), NewReply.req.value)
      ]_vars

C11_Witness ==
    /\ Len(responses) = 2
    /\ \A i \in 1..2 : responses[i].op = "POST" /\ responses[i].route = "data"
                        /\ responses[i].status = 200
    /\ responses[1].req # responses[2].req
    /\ dataFile.value = <<responses[1].req.value, responses[2].req.value>>

\* C12: for an empty filtered set (empty collection, or a window that
\* selects nothing) and any metric, building the series does not fail and
\* what is handed to the chart has no label and no value.
C12_EmptySetEmptySeries ==
    filteredData = <<>> =>
        /\ chartData.kind # "threw"
        /\ screen.kind = "ok"
        /\ ChartProp(chartData).labels = <<>>
        /\ \A i \in DOMAIN ChartProp(chartData).datasets :
               ChartProp(chartData).datasets[i] = <<>>
        /\ screen.chart.data.labels = <<>>
        /\ \A i \in DOMAIN screen.chart.data.datasets :
               screen.chart.data.datasets[i] = <<>>

C12_Witness ==
    /\ pc = "done"
    /\ Len(healthData) > 0
    /\ timePeriod = "7D"
    /\ activeTab = "weight"
    /\ filteredData = <<>>
    /\ screen.kind = "ok"
    /\ screen.chart.kind = "empty"

Rec0310b == Point(Ymd(2025, 3, 10), Empty, Junk, Dec(0))

\* The records of s whose date text is d, in the order of s
RECURSIVE WithDate(_, _)
WithDate(s, d) ==
    IF s = <<>> THEN <<>>
    ELSE LET rest == WithDate(SubSeq(s, 1, Len(s) - 1), d)
         IN  IF s[Len(s)].date = d THEN Append(rest, s[Len(s)]) ELSE rest

\* C13: the sort of the series builder keeps every record of the filtered
\* set (nothing is merged or dropped) and keeps the records of one date in
\* the relative order they have in the filtered set; the series it feeds has
\* one point per sorted record, in that order.
C13_StableNoDedup ==
    LET sorted == sortedData(filteredData)
    IN  /\ Len(sorted) = Len(filteredData)
        /\ \A i \in 1..Len(filteredData) :
               WithDate(sorted, filteredData[i].date)
                   = WithDate(filteredData, filteredData[i].date)
        /\ chartData.kind = "chart" =>
               /\ Len(chartData.data) = Len(sorted)
               /\ Len(chartData.labels) = Len(sorted)
               /\ \A i \in 1..Len(sorted) :
                      chartData.data[i] = MetricNumber(sorted[i], activeTab)

C13_Witness ==
    /\ filteredData = <<Rec0310, Rec0310b>>
    /\ activeTab = "heartRate"
    /\ chartData.kind = "chart"
    /\ chartData.data = <<Num(7200), Num(0)>>

\* The number of months a month or year window reaches back
MonthsBack(tp) ==
    CASE tp = "1M" -> 1 [] tp = "3M" -> 3 [] tp = "6M" -> 6 [] tp = "1Y" -> 12

\* Calendar subtraction of k months: the same day of the month k months
\* earlier, the last day of that month when the day does not exist there
CalendarBack(at, k) ==
    LET back  == IF at.m > k % 12 THEN 0 ELSE 1
        year  == at.y - (k \div 12) - back
        month == at.m - (k % 12) + 12 * back
        last  == DaysInMonth(year, month)
    IN  MkDate(year, month, IF at.d > last THEN last ELSE at.d, at.tod)

\* C14: whenever the dashboard has filtered a non-empty collection under a
\* month or year window, the cutoff it used is the calendar subtraction of
\* 1, 3, 6 or 12 months from the instant it read, clamped to the end of the
\* month (the same rule for the year window as for the month windows).
C14_CalendarCutoff ==
    (healthData # <<>> /\ timePeriod \in {"1M", "3M", "6M", "1Y"}) =>
        cutoffDate(timePeriod, now) = CalendarBack(now, MonthsBack(timePeriod))

\* The stored file of a route
FileOf(route) == IF route = "root" THEN rootFile ELSE dataFile

\* The replies of rs that answer request id
RECURSIVE RepliesTo(_, _)
RepliesTo(rs, id) ==
    IF rs = <<>> THEN <<>>
    ELSE LET rest == RepliesTo(SubSeq(rs, 1, Len(rs) - 1), id)
         IN  IF rs[Len(rs)].id = id THEN Append(rest, rs[Len(rs)]) ELSE rest

\* C15: a POST with a well-formed body that resumes while the stored file of
\* its route exists but holds malformed JSON is answered 500, once (the
\* request is finished, not tried again), and both stored files are left
\* exactly as they were.
C15_MalformedStoreReported ==
    [][ \A r \in inflight :
          (/\ r \notin inflight'
           /\ r.body.ok
           /\ FileOf(r.route).exists /\ ~FileOf(r.route).wellFormed) =>
              /\ IsNewReply
              /\ NewReply.id = r.id /\ NewReply.op = "POST"
              /\ NewReply.status = 500
              /\ Len(RepliesTo(responses', r.id)) = 1
              /\ \A q \in inflight' : q.id # r.id
              /\ rootFile' = rootFile
              /\ dataFile' = dataFile
      ]_vars

C15_Witness ==
    /\ dataFile = MalformedFile
    /\ Len(responses) = 1
    /\ responses[1].op = "POST" /\ responses[1].route = "data"
    /\ responses[1].req.ok
    /\ HasDate(responses[1].req.value)
    /\ responses[1].status = 500
    /\ inflight = {}

\* C16: a change of the window or of the metric, with the whole derivation
\* it triggers (filter, sort, series, summary, min/max), leaves healthData
\* as it was: same length, same order, same records.
C16_DerivationOnlyReads ==
    [][ (timePeriod' # timePeriod \/ activeTab' # activeTab) =>
            healthData' = healthData ]_vars

C16_Witness ==
    /\ pc = "done"
    /\ timePeriod = "ALL"
    /\ activeTab = "weight"
    /\ healthData = <<Rec0310, Rec0301>>
    /\ filteredData = healthData
    /\ chartData.kind = "chart"
    /\ chartData.data = <<Num(7004), Num(0)>>

NoGetYet == \A i \in 1..Len(responses) : responses[i].op # "GET"

\* C17: POSTs in flight together lose no update: each store holds exactly
\* the records of the POSTs answered 200 on its route, in the order in which
\* the requests resumed from the await on their body (for the root file as
\* long as no GET has replaced it).
C17_NoLostUpdate ==
    /\ StoredIn(dataFile) = AcceptedBelow(responses, "data", nextId)
    /\ NoGetYet => StoredIn(rootFile) = AcceptedBelow(responses, "root", nextId)

C17_Witness ==
    /\ Len(responses) = 2
    /\ responses[1].id = 2 /\ responses[2].id = 1
    /\ \A i \in 1..2 : responses[i].op = "POST" /\ responses[i].route = "data"
                        /\ responses[i].status = 200
    /\ responses[1].req # responses[2].req
    /\ StoredIn(dataFile) = <<responses[1].req.value, responses[2].req.value>>

\* C18: whenever the three summary cards show numbers they satisfy
\* min <= average <= max and each of them is strictly positive.
C18_SummaryOrdered ==
    (screen.kind = "ok" /\ screen.average.kind = "value") =>
        /\ screen.min.kind = "value" /\ screen.max.kind = "value"
        /\ screen.min.h <= screen.average.h
        /\ screen.average.h <= screen.max.h
        /\ screen.min.h > 0 /\ screen.average.h > 0 /\ screen.max.h > 0

\* C19: the dashboard starts loading, on window 1M and metric steps; loading
\* eventually becomes false whether the load succeeds or throws; once false
\* it is never true again whatever window or metric is selected later; and
\* while loading is true the three cards and the chart show the loading
\* state, never a number or the no-data indicator.
StartsLoading == loading = TRUE /\ timePeriod = "1M" /\ activeTab = "steps"

C19_LoadingLifecycle ==
    /\ StartsLoading
    /\ <>(~loading)
    /\ [][~loading => ~loading']_vars
    /\ [](loading => /\ screen.kind = "ok"
                     /\ screen.average.kind = "loading"
                     /\ screen.min.kind = "loading"
                     /\ screen.max.kind = "loading"
                     /\ screen.chart.kind = "loading")

C19_Witness ==
    /\ pc = "done"
    /\ ~loading
    /\ timePeriod = "3M"
    /\ activeTab = "heartRate"
    /\ screen.kind = "ok"
    /\ screen.average.kind = "value"

====
